---- MODULE Spec2Model ----
(***************************************************************************)
(* A model of backend/scraper.py (class SECScraper) and of its caller      *)
(* frontend/views.py.  Text is modelled as a sequence of one-character     *)
(* strings, so that strip, upper, zfill, the regex replacements, split and *)
(* join are computed and not assumed.  URLs are sequences of tokens in     *)
(* which "/" is a token of its own.                                        *)
(***************************************************************************)
EXTENDS Integers, Sequences, FiniteSets, TLC

VARIABLES
    arg,                    \* the ticker argument given to SECScraper(ticker)
    ticker,                 \* self.ticker
    cik,                    \* self.cik
    company,                \* self.company
    all_10ks_summary_urls,  \* self.all_10ks_summary_urls
    all_10ks_urls,          \* self.all_10ks_urls
    response_text,          \* the listing fetched by get_10k_summary_urls
    i,                      \* loop index of execute
    mapping,                \* execute's local: the statement map
    statements_data,        \* execute's local: the raw table records
    df,                     \* execute's local: the last per-filing table
    master_df,              \* execute's local: the multi-year table
    requests,               \* the network requests issued so far, in order
    pc,                     \* position in execute
    err,                    \* the exception that ended the run, if any
    lastCall,               \* direct calls: the last method called
    calls,                  \* direct calls: how many were made
    cell,                   \* cleaning: the input cell
    once,                   \* cleaning: the cell cleaned once
    twice                   \* cleaning: the cell cleaned twice

vars == <<arg, ticker, cik, company, all_10ks_summary_urls, all_10ks_urls,
          response_text, i, mapping, statements_data, df, master_df,
          requests, pc, err, lastCall, calls, cell, once, twice>>

(***************************************************************************)
(* Bounds of the model.                                                    *)
(***************************************************************************)
MaxPad == 1         \* whitespace characters on each side of an identifier
MaxListing == 2     \* rows of a filing-search listing
MaxBodyRows == 1    \* body rows of the first statement document
MaxCalls == 3       \* direct method calls on one instance
MaxLen == 3         \* length of a cell given to the cleaning

(***************************************************************************)
(* Python values.                                                          *)
(***************************************************************************)
None == [none |-> TRUE]

NoErr == [type |-> "none", fn |-> "none", line |-> 0]

Raise(type, fn, line) == [type |-> type, fn |-> fn, line |-> line]

\* A value that may be None, a str or a float is tagged by its only field.
Str(s) == [str |-> s]

Float(n) == [float |-> n]

IsStr(v) == "str" \in DOMAIN v

(***************************************************************************)
(* str.strip, str.upper, str(int), str.zfill.                              *)
(***************************************************************************)
Whitespace == {" ", "\t", "\n"}

LowerLetters == <<"a","b","c","d","e","f","g","h","i","j","k","l","m",
                  "n","o","p","q","r","s","t","u","v","w","x","y","z">>

UpperLetters == <<"A","B","C","D","E","F","G","H","I","J","K","L","M",
                  "N","O","P","Q","R","S","T","U","V","W","X","Y","Z">>

DigitChars == <<"0","1","2","3","4","5","6","7","8","9">>

RECURSIVE LStrip(_)
LStrip(s) ==
    IF s # <<>> /\ Head(s) \in Whitespace THEN LStrip(Tail(s)) ELSE s

RECURSIVE RStrip(_)
RStrip(s) ==
    IF s # <<>> /\ s[Len(s)] \in Whitespace
    THEN RStrip(SubSeq(s, 1, Len(s) - 1))
    ELSE s

Strip(s) == RStrip(LStrip(s))

UpperChar(c) ==
    IF \E k \in 1..26 : LowerLetters[k] = c
    THEN UpperLetters[CHOOSE k \in 1..26 : LowerLetters[k] = c]
    ELSE c

Upper(s) == [k \in 1..Len(s) |-> UpperChar(s[k])]

RECURSIVE IntToStr(_)
IntToStr(n) ==
    IF n < 10 THEN <<DigitChars[n + 1]>>
    ELSE IntToStr(n \div 10) \o <<DigitChars[(n % 10) + 1]>>

CikWidth == 10

RECURSIVE ZFill(_, _)
ZFill(s, width) == IF Len(s) >= width THEN s ELSE ZFill(<<"0">> \o s, width)

(***************************************************************************)
(* The identifier lookup (backend/static/cik.json): sample entries of the  *)
(* archive's ticker table, with keys of different lengths.                 *)
(***************************************************************************)
LookupTable ==
    { [ticker |-> <<"M","S","F","T">>, cik_str |-> 789019, title |-> "MICROSOFT CORP"],
      [ticker |-> <<"B","R","K","-","B">>, cik_str |-> 1067983, title |-> "BERKSHIRE HATHAWAY INC"],
      [ticker |-> <<"F">>, cik_str |-> 37996, title |-> "FORD MOTOR CO"] }

\* df["cik_str"].astype(str).str.zfill(10); df.set_index("ticker")
LookupFrame ==
    { [ticker |-> e.ticker, cik_str |-> ZFill(IntToStr(e.cik_str), CikWidth),
       title |-> e.title] : e \in LookupTable }

HasKey(key) == \E e \in LookupFrame : e.ticker = key

Loc(key) == CHOOSE e \in LookupFrame : e.ticker = key

\* The normalization without strip().
UpperOnly(t) == Upper(t)

\* self.ticker.strip().upper()
Normalized(t) == Upper(Strip(t))

(***************************************************************************)
(* SECScraper.__init__                                                     *)
(***************************************************************************)
Construct(t) ==
    /\ arg = t
    /\ ticker = t
    /\ cik = None
    /\ company = None
    /\ all_10ks_summary_urls = <<>>
    /\ all_10ks_urls = <<>>

\* Nothing fetched, no local of execute bound, no exception.
Idle ==
    /\ response_text = None
    /\ i = 0
    /\ mapping = None
    /\ statements_data = <<>>
    /\ df = None
    /\ master_df = None
    /\ requests = <<>>
    /\ err = NoErr

NoDirectCalls == lastCall = "none" /\ calls = 0

NoCleaning == cell = <<>> /\ once = None /\ twice = None

instance == <<ticker, cik, company, all_10ks_summary_urls, all_10ks_urls>>

locals == <<i, mapping, statements_data, df, master_df>>

aside == <<arg, lastCall, calls, cell, once, twice>>

(***************************************************************************)
(* The identifiers given to the constructor: every spelling of a listed    *)
(* identifier (letter case, whitespace around it), and identifiers that    *)
(* are not listed.                                                         *)
(***************************************************************************)
Pads == UNION { [1..n -> Whitespace] : n \in 0..MaxPad }

LowerChar(c) ==
    IF \E k \in 1..26 : UpperLetters[k] = c
    THEN LowerLetters[CHOOSE k \in 1..26 : UpperLetters[k] = c]
    ELSE c

CaseForms(t) ==
    { t,
      [k \in 1..Len(t) |-> LowerChar(t[k])],
      [k \in 1..Len(t) |-> IF k = 1 THEN t[k] ELSE LowerChar(t[k])] }

Spellings(t) == { l \o c \o r : l \in Pads, c \in CaseForms(t), r \in Pads }

AbsentIdentifiers ==
    { <<"Z","Z","Z","Z">>, <<>>, <<"M","S"," ","F","T">>, <<"m","s","f">> }

(***************************************************************************)
(* execute, lines 45-47: identifier resolution.                            *)
(***************************************************************************)
GetTicker ==
    /\ pc = "get_ticker"
    /\ ticker' = Normalized(ticker)
    /\ pc' = "find_cik"
    /\ UNCHANGED <<cik, company, all_10ks_summary_urls, all_10ks_urls,
                   response_text, requests, err, locals, aside>>

\* A lookup that lets a missing identifier through.
FindCikNoRaise ==
    /\ pc = "find_cik"
    /\ IF HasKey(Normalized(ticker))
       THEN /\ cik' = Str(Loc(Normalized(ticker)).cik_str)
            /\ company' = Str(Loc(Normalized(ticker)).title)
       ELSE UNCHANGED <<cik, company>>
    /\ pc' = "get_10k_summary_urls"
    /\ UNCHANGED <<ticker, all_10ks_summary_urls, all_10ks_urls,
                   response_text, requests, err, locals, aside>>

FindCik ==
    /\ pc = "find_cik"
    /\ IF HasKey(Normalized(ticker))
       THEN /\ cik' = Str(Loc(Normalized(ticker)).cik_str)
            /\ company' = Str(Loc(Normalized(ticker)).title)
            /\ pc' = "get_10k_summary_urls"
            /\ err' = err
       ELSE /\ err' = Raise("KeyError", "find_cik", 92)
            /\ pc' = "failed"
            /\ UNCHANGED <<cik, company>>
    /\ UNCHANGED <<ticker, all_10ks_summary_urls, all_10ks_urls,
                   response_text, requests, locals, aside>>

(***************************************************************************)
(* The filing-search listing.  A page either has no seriesDiv container or *)
(* has one with rows; a row has a type cell and may have the "view         *)
(* documents" button (id documentsbutton) carrying the link.  The k-th row *)
(* of a listing links to the k-th filing, most recent first.               *)
(***************************************************************************)
RowKinds == {"good", "malformed", "other"}

Accession == <<"0001-22", "0001-21", "0001-20", "0001-19", "0001-18">>

Href(k) ==
    <<"/", "Archives", "/", "edgar", "/", "data", "/", Accession[k], "/", "index.htm">>

ListingRow(kind, k) ==
    [type |-> IF kind = "other" THEN "10-K/A" ELSE "10-K",
     button |-> kind # "malformed",
     href |-> Href(k)]

NoContainerPage == [container |-> FALSE, rows |-> <<>>]

Pages ==
    {NoContainerPage} \cup
    UNION { { [container |-> TRUE,
               rows |-> [k \in 1..n |-> ListingRow(kinds[k], k)]] :
              kinds \in [1..n -> RowKinds] } : n \in 0..MaxListing }

\* soup.find('div', id="seriesDiv").find_all('td', string="10-K")
Tags(page) == SelectSeq(page.rows, LAMBDA row : row.type = "10-K")

Base == <<"http:", "/", "/", "sec.gov">>

\* The for loop of get_10k_summary_urls over the tags from position k on:
\* the list it leaves behind, and the exception that ended it, if any.
RECURSIVE AppendLinks(_, _, _)
AppendLinks(tags, k, urls) ==
    IF k > Len(tags) THEN [urls |-> urls, err |-> NoErr]
    ELSE IF ~tags[k].button
         THEN [urls |-> urls,
               err |-> Raise("AttributeError", "get_10k_summary_urls", 111)]
         ELSE AppendLinks(tags, k + 1, Append(urls, Base \o tags[k].href))

get_10k_summary_urls(page, urls) ==
    IF ~page.container
    THEN [urls |-> urls,
          err |-> Raise("AttributeError", "get_10k_summary_urls", 107)]
    ELSE AppendLinks(Tags(page), 1, urls)

\* url.split('/')
RECURSIVE Split(_)
Split(url) ==
    IF \A k \in 1..Len(url) : url[k] # "/" THEN <<url>>
    ELSE LET k == CHOOSE j \in 1..Len(url) :
                      url[j] = "/" /\ \A h \in 1..(j - 1) : url[h] # "/"
         IN  <<SubSeq(url, 1, k - 1)>> \o Split(SubSeq(url, k + 1, Len(url)))

\* '/'.join(parts)
RECURSIVE Join(_)
Join(parts) ==
    IF parts = <<>> THEN <<>>
    ELSE IF Len(parts) = 1 THEN parts[1]
    ELSE parts[1] \o <<"/">> \o Join(Tail(parts))

\* '/'.join(url.split('/')[:-1])
BaseUrlOf(url) == Join(SubSeq(Split(url), 1, Len(Split(url)) - 1))

extract_10k_urls(summary_urls, urls) ==
    urls \o [k \in 1..Len(summary_urls) |-> BaseUrlOf(summary_urls[k])]

(***************************************************************************)
(* execute, lines 49-50: the crawl, then the log line that reads the first *)
(* filing reference.                                                       *)
(***************************************************************************)
GetSummaryUrls ==
    /\ pc = "get_10k_summary_urls"
    /\ \E page \in Pages :
         LET r == get_10k_summary_urls(page, all_10ks_summary_urls) IN
         /\ response_text' = page
         /\ requests' = Append(requests, "search")
         /\ all_10ks_summary_urls' = r.urls
         /\ IF r.err # NoErr
            THEN err' = r.err /\ pc' = "failed"
            ELSE IF r.urls = <<>>
                 THEN err' = Raise("IndexError", "execute", 50) /\ pc' = "failed"
                 ELSE err' = err /\ pc' = "extract_10k_urls"
    /\ UNCHANGED <<ticker, cik, company, all_10ks_urls, locals, aside>>

(***************************************************************************)
(* execute, lines 52-53.                                                   *)
(***************************************************************************)
ExtractUrls ==
    /\ pc = "extract_10k_urls"
    /\ all_10ks_urls' = extract_10k_urls(all_10ks_summary_urls, all_10ks_urls)
    /\ response_text' = None
    /\ IF all_10ks_urls' = <<>>
       THEN err' = Raise("IndexError", "execute", 53) /\ pc' = "failed"
       ELSE err' = err /\ pc' = "mapping"
    /\ UNCHANGED <<ticker, cik, company, all_10ks_summary_urls, requests,
                   locals, aside>>

(***************************************************************************)
(* The summary manifest (FilingSummary.xml) and the statement map.         *)
(***************************************************************************)
Report(shortname, htmlfilename) ==
    [shortname |-> shortname, htmlfilename |-> htmlfilename]

NoReportsManifest == [myreports |-> FALSE, reports |-> <<>>]

Manifests ==
    { NoReportsManifest,
      [myreports |-> TRUE,
       reports |-> << Report(<<"B","a","l","a","n","c","e">>, "R2.htm"),
                      Report(<<"C","a","s","h">>, "R4.htm"),
                      Report(<<"B","A","L","A","N","C","E">>, "R7.htm"),
                      Report(<<"A","l","l">>, "R9.htm") >>] }

\* mapping[key] = value
DictSet(d, key, value) ==
    [x \in (DOMAIN d) \cup {key} |-> IF x = key THEN value ELSE d[x]]

RECURSIVE BuildMapping(_, _)
BuildMapping(reports, d) ==
    IF reports = <<>> THEN d
    ELSE BuildMapping(Tail(reports),
                      DictSet(d, Upper(Head(reports).shortname),
                              Head(reports).htmlfilename))

find_statement_to_table_mapping_for_single_10k(manifest) ==
    IF ~manifest.myreports
    THEN [mapping |-> None,
          err |-> Raise("AttributeError",
                        "find_statement_to_table_mapping_for_single_10k", 137)]
    ELSE [mapping |->
              [dict |-> BuildMapping(
                            SubSeq(manifest.reports, 1, Len(manifest.reports) - 1),
                            <<>>)],
          err |-> NoErr]

(***************************************************************************)
(* execute, lines 57-60: the next filing's base URL and its statement map. *)
(***************************************************************************)
Years == 2

FindMapping ==
    /\ pc = "mapping"
    /\ IF i + 1 > Len(all_10ks_urls)
       THEN /\ err' = Raise("IndexError", "execute", 58)
            /\ pc' = "failed"
            /\ UNCHANGED <<mapping, requests>>
       ELSE \E manifest \in Manifests :
              LET r == find_statement_to_table_mapping_for_single_10k(manifest) IN
              /\ requests' = Append(requests, "manifest")
              /\ IF r.err # NoErr
                 THEN err' = r.err /\ pc' = "failed" /\ mapping' = mapping
                 ELSE err' = err /\ pc' = "scrape" /\ mapping' = r.mapping
    /\ UNCHANGED <<instance, response_text, i, statements_data, df, master_df,
                   aside>>

(***************************************************************************)
(* Statement documents.  A document may hold no table; a table row has the *)
(* texts of its th cells, the number of its strong elements and the texts  *)
(* of its td cells.                                                        *)
(***************************************************************************)
TableRow(th, strong, td) == [th |-> th, strong |-> strong, td |-> td]

NoTableDoc == [table |-> FALSE, rows |-> <<>>]

TableDoc(rows) == [table |-> TRUE, rows |-> rows]

NewStatement == [headers |-> <<>>, sections |-> <<>>, data |-> <<>>]

\* The body of the row loop, lines 210-228.
ScrapeRow(row, st) ==
    IF Len(row.th) = 0 /\ row.strong = 0
    THEN [st |-> [st EXCEPT !.data =
                      Append(@, [k \in 1..Len(row.td) |-> Strip(row.td[k])])],
          err |-> NoErr]
    ELSE IF Len(row.th) = 0 /\ row.strong # 0
    THEN IF row.td = <<>>
         THEN [st |-> st,
               err |-> Raise("IndexError", "scrape_data_for_single_10k", 219)]
         ELSE [st |-> [st EXCEPT !.sections = Append(@, Strip(row.td[1]))],
               err |-> NoErr]
    ELSE IF Len(row.th) # 0
    THEN [st |-> [st EXCEPT !.headers =
                      Append(@, [k \in 1..Len(row.th) |-> Strip(row.th[k])])],
          err |-> NoErr]
    ELSE [st |-> st, err |-> NoErr]

RECURSIVE ScrapeRows(_, _, _)
ScrapeRows(rows, k, st) ==
    IF k > Len(rows) THEN [st |-> st, err |-> NoErr]
    ELSE LET r == ScrapeRow(rows[k], st) IN
         IF r.err # NoErr THEN r ELSE ScrapeRows(rows, k + 1, r.st)

FirstSlot == 2

LastSlot == 10

Slots == FirstSlot..LastSlot

\* The loop over the statement documents R2.htm .. R10.htm from slot n on:
\* the records gathered, the documents fetched, the exception if any.
RECURSIVE ScrapeSlots(_, _, _)
ScrapeSlots(docs, n, acc) ==
    IF n > LastSlot THEN [data |-> acc, fetched |-> n - FirstSlot, err |-> NoErr]
    ELSE IF ~docs[n].table
    THEN [data |-> acc, fetched |-> n - FirstSlot + 1,
          err |-> Raise("AttributeError", "scrape_data_for_single_10k", 207)]
    ELSE LET r == ScrapeRows(docs[n].rows, 1, NewStatement) IN
         IF r.err # NoErr
         THEN [data |-> acc, fetched |-> n - FirstSlot + 1, err |-> r.err]
         ELSE ScrapeSlots(docs, n + 1, Append(acc, r.st))

scrape_data_for_single_10k(docs) == ScrapeSlots(docs, FirstSlot, <<>>)

(***************************************************************************)
(* The documents the archive may answer with.  The first document (R2)     *)
(* opens with its header rows and goes on with up to MaxBodyRows rows of   *)
(* every kind; the documents after it are alike.                           *)
(***************************************************************************)
TxtGroup == <<"1","2"," ","M","o","n","t","h","s">>

TxtDate2022 == <<"D","e","c","."," ","3","1",","," ","2","0","2","2">>

TxtDate2021 == <<"D","e","c","."," ","3","1",","," ","2","0","2","1">>

TxtBadDate == <<"D","e","c"," ","3","1",","," ","2","0","2","2">>

TxtRevenue == <<"R","e","v","e","n","u","e">>

TxtAmount == <<"$","1",",","2","3","4">>

TxtCost == <<"C","o","s","t">>

HeaderRows ==
    { << TableRow(<<TxtGroup>>, 0, <<>>),
         TableRow(<<TxtDate2022 \o <<"\n">>, TxtDate2021>>, 0, <<>>) >>,
      << TableRow(<<TxtGroup>>, 1, <<>>),
         TableRow(<<TxtDate2021>>, 0, <<>>) >>,
      << TableRow(<<TxtGroup>>, 0, <<>>),
         TableRow(<<TxtBadDate>>, 0, <<>>) >>,
      << TableRow(<<TxtGroup>>, 0, <<>>) >> }

BodyRows ==
    { TableRow(<<>>, 0, << <<"\n"," ">> \o TxtRevenue, TxtAmount \o <<" ">> >>),
      TableRow(<<>>, 0, << <<>>, <<"5">> >>),
      TableRow(<<>>, 0, << <<"$">>, <<"(","5",")">> >>),
      TableRow(<<>>, 1, << <<"A","s","s","e","t","s"," ">> >>),
      TableRow(<<>>, 1, <<>>) }

Bodies == UNION { [1..n -> BodyRows] : n \in 0..MaxBodyRows }

FirstDocs ==
    {NoTableDoc} \cup { TableDoc(h \o b) : h \in HeaderRows, b \in Bodies }

LaterDocs ==
    { TableDoc(<<>>),
      TableDoc(<< TableRow(<<>>, 0, << TxtCost, <<"(","5",")">>, <<"7">> >>) >>) }

Filings ==
    { [n \in Slots |-> IF n = FirstSlot THEN first ELSE later] :
        first \in FirstDocs, later \in LaterDocs }

(***************************************************************************)
(* execute, lines 62-63.                                                   *)
(***************************************************************************)
Scrape ==
    /\ pc = "scrape"
    /\ \E docs \in Filings :
         LET r == scrape_data_for_single_10k(docs) IN
         /\ requests' = requests \o [k \in 1..r.fetched |-> "statement"]
         /\ IF r.err # NoErr
            THEN err' = r.err /\ pc' = "failed"
                 /\ statements_data' = statements_data
            ELSE err' = err /\ pc' = "make_df" /\ statements_data' = r.data
    /\ UNCHANGED <<instance, response_text, i, mapping, df, master_df, aside>>

(***************************************************************************)
(* Data frames: the column names, and the cells of every row under the     *)
(* row's index label.  A cell is a Str, a Float or None (NaN).             *)
(***************************************************************************)
Frame(columns, rows) == [columns |-> columns, rows |-> rows]

Max(a, b) == IF a >= b THEN a ELSE b

RECURSIVE Width(_)
Width(data) == IF data = <<>> THEN 0 ELSE Max(Len(Head(data)), Width(Tail(data)))

RECURSIVE Flatten(_)
Flatten(lists) == IF lists = <<>> THEN <<>> ELSE Head(lists) \o Flatten(Tail(lists))

Digit(c) == CHOOSE d \in 0..9 : DigitChars[d + 1] = c

IsDigit(c) == \E d \in 0..9 : DigitChars[d + 1] = c

RECURSIVE DigitsValue(_)
DigitsValue(s) ==
    IF s = <<>> THEN 0
    ELSE 10 * DigitsValue(SubSeq(s, 1, Len(s) - 1)) + Digit(s[Len(s)])

AllDigits(s) == s # <<>> /\ \A k \in 1..Len(s) : IsDigit(s[k])

\* float(s) for the texts of the model: an optional sign and digits, with
\* surrounding whitespace ignored.  No text of the model holds a decimal
\* point, an exponent or an underscore.
CanFloat(s) ==
    LET t == Strip(s) IN
    IF t # <<>> /\ Head(t) \in {"-", "+"} THEN AllDigits(Tail(t)) ELSE AllDigits(t)

ToFloat(s) ==
    LET t == Strip(s) IN
    IF Head(t) = "-" THEN 0 - DigitsValue(Tail(t))
    ELSE IF Head(t) = "+" THEN DigitsValue(Tail(t))
    ELSE DigitsValue(t)

Months == { <<"J","a","n">>, <<"F","e","b">>, <<"M","a","r">>, <<"A","p","r">>,
            <<"M","a","y">>, <<"J","u","n">>, <<"J","u","l">>, <<"A","u","g">>,
            <<"S","e","p">>, <<"O","c","t">>, <<"N","o","v">>, <<"D","e","c">> }

\* datetime.strptime(s, '%b. %d, %Y') for the texts of the model: the month
\* abbreviation in any case, a dot, a blank, a day of one or two digits, a
\* comma, a blank, a year of four digits, and nothing after it.
DayLen(s) == IF Len(s) >= 7 /\ IsDigit(s[7]) THEN 2 ELSE 1

IsDate(s) ==
    /\ Len(s) = 11 + DayLen(s)
    /\ \E m \in Months : Upper(m) = Upper(SubSeq(s, 1, 3))
    /\ s[4] = "." /\ s[5] = " "
    /\ AllDigits(SubSeq(s, 6, 5 + DayLen(s)))
    /\ DigitsValue(SubSeq(s, 6, 5 + DayLen(s))) \in 1..31
    /\ s[6 + DayLen(s)] = "," /\ s[7 + DayLen(s)] = " "
    /\ AllDigits(SubSeq(s, 8 + DayLen(s), 11 + DayLen(s)))

YearOf(s) == DigitsValue(SubSeq(s, 8 + DayLen(s), 11 + DayLen(s)))

\* f'Category {year}'
CategoryColumn(year) == <<"C","a","t","e","g","o","r","y"," ">> \o IntToStr(year)

\* A replacement that stops after the first match.
RemoveFirstPunctuation(s) ==
    IF \A k \in 1..Len(s) : s[k] \notin {"$", ",", ")"} THEN s
    ELSE LET k == CHOOSE j \in 1..Len(s) :
                      /\ s[j] \in {"$", ",", ")"}
                      /\ \A h \in 1..(j - 1) : s[h] \notin {"$", ",", ")"}
         IN  SubSeq(s, 1, k - 1) \o SubSeq(s, k + 1, Len(s))

\* df.replace('[\$,)]', '', regex=True) on one str cell
RemovePunctuation(s) == SelectSeq(s, LAMBDA c : c \notin {"$", ",", ")"})

\* df.replace('[(]', '-', regex=True) on one str cell
ParenToMinus(s) == [k \in 1..Len(s) |-> IF s[k] = "(" THEN "-" ELSE s[k]]

\* Lines 258, 259 and 262-263 on a whole frame: each works on the str
\* cells and leaves NaN alone.
WithoutPunctuation(rows) ==
    [l \in DOMAIN rows |->
        [j \in 1..Len(rows[l]) |->
            IF IsStr(rows[l][j]) THEN Str(RemovePunctuation(rows[l][j].str))
            ELSE rows[l][j]]]

WithMinus(rows) ==
    [l \in DOMAIN rows |->
        [j \in 1..Len(rows[l]) |->
            IF IsStr(rows[l][j]) THEN Str(ParenToMinus(rows[l][j].str))
            ELSE rows[l][j]]]

Stripped(rows) ==
    [l \in DOMAIN rows |->
        [j \in 1..Len(rows[l]) |->
            IF IsStr(rows[l][j]) THEN Str(Strip(rows[l][j].str))
            ELSE rows[l][j]]]

\* df.astype(float, errors='ignore'): a column is converted when every cell
\* of it converts, and is left as it is otherwise.
ColumnFloats(rows, j) ==
    \A l \in DOMAIN rows : IsStr(rows[l][j]) => CanFloat(rows[l][j].str)

AsFloat(v) == IF IsStr(v) THEN Float(ToFloat(v.str)) ELSE v

AsType(rows, width) ==
    [l \in DOMAIN rows |->
        [j \in 1..width |->
            IF ColumnFloats(rows, j) THEN AsFloat(rows[l][j]) ELSE rows[l][j]]]

\* df.replace('', None, inplace=True).  Newer pandas puts None in the place
\* of every empty string; older pandas takes value=None for "fill from the
\* row above" and leaves an empty string with nothing above it.
Above(rows, l) == { h \in DOMAIN rows : h < l }

RECURSIVE Padded(_, _, _)
Padded(rows, l, j) ==
    IF rows[l][j] # Str(<<>>) THEN rows[l][j]
    ELSE IF Above(rows, l) = {} THEN rows[l][j]
    ELSE Padded(rows, CHOOSE h \in Above(rows, l) :
                          \A g \in Above(rows, l) : g <= h, j)

ReplaceEmpty(rows, width, pad) ==
    [l \in DOMAIN rows |->
        [j \in 1..width |->
            IF pad THEN Padded(rows, l, j)
            ELSE IF rows[l][j] = Str(<<>>) THEN None ELSE rows[l][j]]]

\* pd.DataFrame(data).iloc[:, :2]: the rows under the labels 0, 1, ..., each
\* filled with None up to the width kept.
CellAt(row, j) == IF j <= Len(row) THEN Str(row[j]) ELSE None

RawRows(data, width) ==
    [l \in 0..(Len(data) - 1) |-> [j \in 1..width |-> CellAt(data[l + 1], j)]]

\* Lines 254-255: the rows whose category is '' or missing are dropped.
DropEmptyCategories(rows) ==
    [l \in { h \in DOMAIN rows : rows[h][1] \notin {Str(<<>>), None} } |-> rows[l]]

Failed(type, line) ==
    [df |-> None, err |-> Raise(type, "make_df_for_single_10k", line)]

make_df_for_single_10k(sd, pad) ==
    IF Len(sd[1].headers) < 2 THEN Failed("IndexError", 238)
    ELSE
    LET header == sd[1].headers[2]
        data == Flatten([k \in 1..Len(sd) |-> sd[k].data])
        width == IF Width(data) < 2 THEN Width(data) ELSE 2
        names == <<CategoryColumn(YearOf(header[1]))>> \o SubSeq(header, 1, 1)
        kept == DropEmptyCategories(RawRows(data, width))
        cleaned == WithMinus(WithoutPunctuation(kept))
        stripped == Stripped(cleaned)
    IN  IF \E k \in 1..Len(header) : ~IsDate(header[k])
        THEN Failed("ValueError", 246)
        ELSE IF header = <<>> THEN Failed("IndexError", 250)
        ELSE IF width # Len(names) THEN Failed("ValueError", 251)
        ELSE [df |-> Frame(names,
                           ReplaceEmpty(AsType(stripped, width), width, pad)),
              err |-> NoErr]

\* pd.concat([a, b], axis=1): the columns of b after those of a, the rows
\* matched by index label, NaN where a frame has no row under a label.
Blank(frame) == [j \in 1..Len(frame.columns) |-> None]

RowOf(frame, l) == IF l \in DOMAIN frame.rows THEN frame.rows[l] ELSE Blank(frame)

\* pd.concat([b, a], axis=1)
ConcatReversed(a, b) ==
    Frame(b.columns \o a.columns,
          [l \in (DOMAIN a.rows) \cup (DOMAIN b.rows) |-> RowOf(b, l) \o RowOf(a, l)])

Concat(a, b) ==
    Frame(a.columns \o b.columns,
          [l \in (DOMAIN a.rows) \cup (DOMAIN b.rows) |-> RowOf(a, l) \o RowOf(b, l)])

(***************************************************************************)
(* execute, lines 65-75: the filing's table joins the multi-year table,    *)
(* and after the last year the multi-year table is returned.               *)
(***************************************************************************)
MakeDf ==
    /\ pc = "make_df"
    /\ \E pad \in BOOLEAN :
         LET r == make_df_for_single_10k(statements_data, pad) IN
         IF r.err # NoErr
         THEN /\ err' = r.err /\ pc' = "failed"
              /\ UNCHANGED <<i, df, master_df>>
         ELSE /\ df' = r.df
              /\ master_df' = IF i = 0 THEN r.df ELSE Concat(master_df, r.df)
              /\ i' = i + 1
              /\ pc' = IF i + 1 = Years THEN "done" ELSE "mapping"
              /\ err' = err
    /\ UNCHANGED <<instance, response_text, mapping, statements_data, requests,
                   aside>>

ExecInputs == { <<" ","m","s","f","t","\n">> } \cup AbsentIdentifiers

Init ==
    /\ \E t \in ExecInputs : Construct(t)
    /\ Idle /\ NoDirectCalls /\ NoCleaning
    /\ pc = "get_ticker"

Next ==
    \/ GetTicker
    \/ FindCik
    \/ GetSummaryUrls
    \/ ExtractUrls
    \/ FindMapping
    \/ Scrape
    \/ MakeDf

Spec == Init /\ [][Next]_vars

(***************************************************************************)
(* Identifier resolution alone, over every spelling of an identifier.      *)
(***************************************************************************)
ResolveInputs ==
    UNION { Spellings(e.ticker) : e \in LookupTable } \cup AbsentIdentifiers

InitResolve ==
    /\ \E t \in ResolveInputs : Construct(t)
    /\ Idle /\ NoDirectCalls /\ NoCleaning
    /\ pc = "get_ticker"

NextResolve == GetTicker \/ FindCik

SpecResolve == InitResolve /\ [][NextResolve]_vars

(***************************************************************************)
(* The two list-building methods called directly on one instance, in any   *)
(* order, as their return_urls parameters invite.  An exception that       *)
(* reaches the caller ends the sequence.                                   *)
(***************************************************************************)
InitCalls ==
    /\ Construct(<<"M","S","F","T">>)
    /\ Idle /\ NoDirectCalls /\ NoCleaning
    /\ pc = "direct"

CallGetSummaryUrls ==
    /\ pc = "direct" /\ err = NoErr /\ calls < MaxCalls
    /\ \E page \in Pages :
         LET r == get_10k_summary_urls(page, all_10ks_summary_urls) IN
         /\ response_text' = page
         /\ requests' = Append(requests, "search")
         /\ all_10ks_summary_urls' = r.urls
         /\ err' = r.err
    /\ lastCall' = "get_10k_summary_urls"
    /\ calls' = calls + 1
    /\ UNCHANGED <<arg, ticker, cik, company, all_10ks_urls, locals, pc,
                   cell, once, twice>>

CallExtractUrls ==
    /\ pc = "direct" /\ err = NoErr /\ calls < MaxCalls
    /\ all_10ks_urls' = extract_10k_urls(all_10ks_summary_urls, all_10ks_urls)
    /\ response_text' = None
    /\ lastCall' = "extract_10k_urls"
    /\ calls' = calls + 1
    /\ UNCHANGED <<arg, ticker, cik, company, all_10ks_summary_urls, locals,
                   requests, pc, err, cell, once, twice>>

NextCalls == CallGetSummaryUrls \/ CallExtractUrls

SpecCalls == InitCalls /\ [][NextCalls]_vars

(***************************************************************************)
(* The cleaning of one cell (lines 258-259), applied once and once more.   *)
(***************************************************************************)
CleanAlphabet == {"$", ",", "(", ")", "-", "1", " "}

CellTexts == UNION { [1..n -> CleanAlphabet] : n \in 0..MaxLen }

Clean(s) == ParenToMinus(RemovePunctuation(s))

InitClean ==
    /\ Construct(<<"M","S","F","T">>)
    /\ Idle /\ NoDirectCalls
    /\ cell \in CellTexts
    /\ once = None
    /\ twice = None
    /\ pc = "clean"

CleanOnce ==
    /\ pc = "clean" /\ once = None
    /\ once' = Str(Clean(cell))
    /\ UNCHANGED <<instance, response_text, locals, requests, pc, err, arg,
                   lastCall, calls, cell, twice>>

CleanTwice ==
    /\ pc = "clean" /\ once # None /\ twice = None
    /\ twice' = Str(Clean(once.str))
    /\ UNCHANGED <<instance, response_text, locals, requests, pc, err, arg,
                   lastCall, calls, cell, once>>

NextClean == CleanOnce \/ CleanTwice

SpecClean == InitClean /\ [][NextClean]_vars

(***************************************************************************)
(* The claims.                                                             *)
(***************************************************************************)

\* C1: a filing-level failure (a period-date header that does not parse, a
\* manifest without a report container) does not abort the run: the run
\* never ends in the exception of either.
C1_FilingFailureDoesNotAbort ==
    ~(/\ pc = "failed"
      /\ \/ err.fn = "make_df_for_single_10k" /\ err.line = 246
         \/ err.fn = "find_statement_to_table_mapping_for_single_10k")

\* C2: the table returned by make_df_for_single_10k has no row whose
\* category label is empty or null.
C2_NoEmptyCategory ==
    df # None =>
        \A l \in DOMAIN df.rows : df.rows[l][1] \notin {Str(<<>>), None}

\* The period label of the filing being processed, and its year.
C3_Period == statements_data[1].headers[2][1]

C3_Year == DigitsValue(SubSeq(C3_Period, Len(C3_Period) - 3, Len(C3_Period)))

C3_Before == IF i = 0 THEN <<>> ELSE master_df.columns

C3_OnlyRevenue ==
    Flatten([k \in 1..Len(statements_data) |-> statements_data[k].data])
        = << <<TxtRevenue, TxtAmount>> >>

C3_Processed ==
    /\ master_df'.columns =
           C3_Before \o << <<"C","a","t","e","g","o","r","y"," ">> \o IntToStr(C3_Year),
                           C3_Period >>
    /\ Len(master_df'.columns) = 2 * (i + 1)
    /\ i > 0 =>
           \A l \in DOMAIN master_df.rows :
               SubSeq(master_df'.rows[l], 1, Len(C3_Before)) = master_df.rows[l]
    /\ C3_OnlyRevenue =>
           /\ master_df'.rows[0][2 * i + 1] = Str(TxtRevenue)
           /\ master_df'.rows[0][2 * i + 2] = Float(1234)
    /\ (pc' = "done") = (i + 1 = 2)

C4_Absent == \A e \in LookupTable : arg \notin Spellings(e.ticker)

C5_CrawlerRaises ==
    (/\ response_text # None
     /\ ~response_text.container \/ Tags(response_text) = <<>>) =>
        /\ pc = "failed"
        /\ err.fn = "get_10k_summary_urls"
        /\ requests = <<"search">>

\* The target-type rows that carry the documents link.
C6_WellFormed(page) ==
    SelectSeq(page.rows, LAMBDA row : row.type = "10-K" /\ row.button)

\* C6: a target-type row without the documents link is skipped: the crawl
\* does not fail, and the list holds the links of the well-formed
\* target-type rows in listing order.
C6_MalformedRowSkipped ==
    (response_text # None /\ response_text.container) =>
        /\ err.fn # "get_10k_summary_urls"
        /\ all_10ks_summary_urls =
               [k \in 1..Len(C6_WellFormed(response_text)) |->
                    <<"http:", "/", "/", "sec.gov">> \o C6_WellFormed(response_text)[k].href]

\* C7: no table row makes the classification fail: the scrape never ends in
\* an exception of the row loop (lines 210-228).
C7_ClassificationTotal ==
    ~(/\ pc = "failed"
      /\ err.fn = "scrape_data_for_single_10k"
      /\ err.line \in 210..228)

\* The run got the key and the name of entry e.
C8_Resolved(e) ==
    /\ pc # "failed"
    /\ cik # None
    /\ Len(cik.str) = 10
    /\ \A k \in 1..Len(cik.str) : IsDigit(cik.str[k])
    /\ DigitsValue(cik.str) = e.cik_str
    /\ company = Str(e.title)

\* C8: every spelling of a listed identifier (other letter case, whitespace
\* around it) resolves, and to the entry's key as a string of exactly ten
\* digits whose value is the key.
C8_SpellingInsensitive ==
    \A e \in LookupTable :
        (arg \in Spellings(e.ticker) /\ pc \notin {"get_ticker", "find_cik"}) =>
            C8_Resolved(e)

C8_Witness ==
    /\ pc = "get_10k_summary_urls"
    /\ arg = <<" ", "m", "s", "f", "t", " ">>
    /\ cik = Str(<<"0","0","0","0","7","8","9","0","1","9">>)

\* C9: cleaning a cleaned cell changes nothing.
C9_CleanIdempotent == twice # None => twice = once

C9_Witness ==
    /\ twice # None
    /\ cell = <<"(", "$", "1">>
    /\ once = Str(<<"-", "1">>)

\* A URL up to, and without, its last "/".
C10_WithoutLastSegment(url) ==
    LET last == CHOOSE k \in 1..Len(url) :
                    url[k] = "/" /\ \A h \in (k + 1)..Len(url) : url[h] # "/"
    IN  SubSeq(url, 1, last - 1)

\* C10: after any sequence of direct calls that ends with extract_10k_urls,
\* all_10ks_urls is as long as all_10ks_summary_urls and holds, place by
\* place, the summary URL without its last path segment.
C10_OneToOne ==
    lastCall = "extract_10k_urls" =>
        /\ Len(all_10ks_urls) = Len(all_10ks_summary_urls)
        /\ \A k \in 1..Len(all_10ks_urls) :
               all_10ks_urls[k] = C10_WithoutLastSegment(all_10ks_summary_urls[k])

====
